---- MODULE Spec2Model ----
(***************************************************************************)
(* Model of app.py: the login gateway in front of the Sophia API.          *)
(*                                                                         *)
(* State: the module-level token_cache, the clock read by time.time(),     *)
(* one Flask session per browser, and for each browser the position of its *)
(* request inside login() / obter_token_sistema() / validar_login_aluno(). *)
(* A browser has at most one request in flight; requests of different      *)
(* browsers run on different threads and interleave at every statement     *)
(* that touches token_cache and around both outbound calls.                *)
(*                                                                         *)
(* Python values are records tagged with their type so that truthiness,    *)
(* dict.get and str.strip are computed as Python computes them.            *)
(***************************************************************************)
EXTENDS Integers, Sequences, FiniteSets, TLC

\* ----------------------------------------------------------------- bounds
\* Seconds the clock advances in one step of time.
TickStep == 600
\* Number of steps of time a behaviour has.
MaxTicks == 3
\* The instant at which the process starts.
StartTime == 600

\* ------------------------------------------------------- program constants
TOKEN_LIFESPAN_SECONDS == 1800
INITIAL_EXPIRES_AT == 0

MSG_OBRIGATORIOS == "Codigo e senha sao obrigatorios!"
MSG_ERRO_CRITICO == "Erro critico no sistema. Tente novamente mais tarde."
MSG_INVALIDOS == "Codigo ou senha invalidos."
MSG_PRECISA_LOGIN == "Voce precisa fazer login para acessar esta pagina."
MSG_DESCONECTADO == "Voce foi desconectado com sucesso."
NoMsg == "-"

\* ---------------------------------------------------------- Python values
None == [type |-> "NoneType"]
Str(s) == [type |-> "str", val |-> s]
Bool(b) == [type |-> "bool", val |-> b]
Dict(f) == [type |-> "dict", val |-> f]
List(q) == [type |-> "list", val |-> q]

\* bool(v): what `if v`, `not v` and `a and b` test.
Truthy(v) ==
    CASE v.type = "NoneType" -> FALSE
      [] v.type = "bool" -> v.val
      [] v.type = "str" -> Len(v.val) > 0
      [] v.type = "list" -> Len(v.val) > 0
      [] v.type = "dict" -> DOMAIN v.val /= {}

EmptyDict == [k \in {} |-> None]
DictGet(d, k, default) == IF k \in DOMAIN d THEN d[k] ELSE default
DictSet(d, k, v) == [x \in DOMAIN d \cup {k} |-> IF x = k THEN v ELSE d[x]]

\* str.strip(): drops the leading and the trailing whitespace.
RECURSIVE LStrip(_)
LStrip(s) == IF s /= <<>> /\ Head(s) = " " THEN LStrip(Tail(s)) ELSE s
RECURSIVE RStrip(_)
RStrip(s) ==
    IF s /= <<>> /\ s[Len(s)] = " " THEN RStrip(SubSeq(s, 1, Len(s) - 1)) ELSE s
Strip(s) == RStrip(LStrip(s))

\* -------------------------------------------------------------- the inputs
Sessions == {"b1", "b2"}

\* request.form.get('codigo') and request.form.get('senha'): a field that is
\* missing, one that is empty, one that is filled in.
Codigos == {None, Str(<<"1", "2", "3">>)}
Senhas == {Str(<<>>), Str(<<"p", "w">>)}

\* response.text of the Autenticacao endpoint
AuthBodies == {<<>>, <<" ">>, <<"a">>, <<" ", "b", " ">>}
\* How the outbound system-authentication call ends.
AuthResults ==
    {[kind |-> k, text |-> <<>>] : k \in {"network_error", "timeout"}}
    \cup {[kind |-> "http_error", text |-> <<"e">>]}
    \cup {[kind |-> "ok", text |-> b] : b \in AuthBodies}
NoResult == [kind |-> "none"]

\* The JSON objects a ValidarLogin answer is drawn from: acessoValido true, false,
\* null or absent; alunoId and nome filled in, empty, null or absent.
A1 == Str(<<"A", "1">>)
MARIA == Str(<<"M", "a", "r", "i", "a">>)
JsonObjects ==
    { [acessoValido |-> Bool(TRUE), alunoId |-> A1, nome |-> MARIA],
      [acessoValido |-> Bool(TRUE)],
      [acessoValido |-> Bool(TRUE), alunoId |-> Str(<<>>), nome |-> None],
      [acessoValido |-> Bool(FALSE), alunoId |-> A1, nome |-> MARIA],
      [acessoValido |-> Bool(FALSE)],
      [acessoValido |-> None, alunoId |-> A1, nome |-> MARIA],
      [alunoId |-> A1, nome |-> MARIA],
      EmptyDict }
\* response.json() of the ValidarLogin endpoint: objects, and JSON that is no object.
JsonBodies == {Dict(o) : o \in JsonObjects} \cup {None, List(<<>>), List(<<Bool(TRUE)>>)}
\* How the outbound credential-validation call ends.
ValidationResults ==
    {[kind |-> k, json |-> None] : k \in {"network_error", "timeout", "http_error", "not_json"}}
    \cup {[kind |-> "ok", json |-> j] : j \in JsonBodies}

ESTUDANTE == Str(<<"E", "s", "t", "u", "d", "a", "n", "t", "e">>)
DESCONHECIDO == Str(<<"d", "e", "s", "c", "o", "n", "h", "e", "c", "i", "d", "o">>)

VARIABLES
    token_cache,    \* the module-level dict: [token, expires_at]
    now,            \* what time.time() returns
    session,        \* session[b]: the Flask session of browser b, a dict
    pc,             \* pc[b]: where the request of browser b stands
    route,          \* route[b]: the request b made last
    form,           \* form[b]: codigo and senha of the login POST b made last
    tnow,           \* tnow[b]: the instant the request read at the cache check
    novo_token,     \* novo_token[b]: the local of obter_token_sistema
    token_sistema,  \* token_sistema[b]: the local of login
    auth_result,    \* auth_result[b]: how the Autenticacao call of b ended
    valid_result,   \* valid_result[b]: how the ValidarLogin call of b ended
    resp,           \* resp[b]: the response the last request of b produced
    flashed,        \* flashed[b]: the message the last request of b flashed
    authCalls,      \* authCalls[b]: Autenticacao calls issued by the request
    validCalls,     \* validCalls[b]: ValidarLogin calls issued by the request
    usuario_id,     \* usuario_id[b]: the local of logout, which it logs
    oauth_result,   \* oauth_result[b]: how the OAuth exchange of b ended
    tokenBy,        \* history: the request that wrote token_cache["token"]
    expBy,          \* history: the request that wrote token_cache["expires_at"]
    tokenFetchedAt  \* history: <<t>>, the instant at which the refresh that wrote
                    \* the cached token computed its expiry; <<>> before it did

vars == <<token_cache, now, session, pc, route, form, tnow, novo_token, token_sistema,
          auth_result, valid_result, resp, flashed, authCalls, validCalls, usuario_id,
          oauth_result, tokenBy, expBy, tokenFetchedAt>>

NoForm == [codigo |-> None, senha |-> None]
Nobody == "nobody"

Init ==
    /\ token_cache = [token |-> None, expires_at |-> INITIAL_EXPIRES_AT]
    /\ now = StartTime
    /\ session = [b \in Sessions |-> EmptyDict]
    /\ pc = [b \in Sessions |-> "idle"]
    /\ route = [b \in Sessions |-> "none"]
    /\ form = [b \in Sessions |-> NoForm]
    /\ tnow = [b \in Sessions |-> StartTime]
    /\ novo_token = [b \in Sessions |-> None]
    /\ token_sistema = [b \in Sessions |-> None]
    /\ auth_result = [b \in Sessions |-> NoResult]
    /\ valid_result = [b \in Sessions |-> NoResult]
    /\ resp = [b \in Sessions |-> "none"]
    /\ flashed = [b \in Sessions |-> NoMsg]
    /\ authCalls = [b \in Sessions |-> 0]
    /\ validCalls = [b \in Sessions |-> 0]
    /\ usuario_id = [b \in Sessions |-> None]
    /\ oauth_result = [b \in Sessions |-> NoResult]
    /\ tokenBy = Nobody
    /\ expBy = Nobody
    /\ tokenFetchedAt = <<>>

\* ------------------------------------------------- the decisions of the code
\* 'usuario_logado' in session
LoggedIn(d) == "usuario_logado" \in DOMAIN d

\* Mutant: only the code is tested.
MissingInput_CodeOnly(codigo, senha) == ~Truthy(codigo)

\* if not codigo_usuario or not senha_usuario
MissingInput(codigo, senha) == ~Truthy(codigo) \/ ~Truthy(senha)

\* Mutant: the token is still served at the instant it expires.
CacheValid_Inclusive(cache, t) == Truthy(cache.token) /\ t <= cache.expires_at

\* if token_cache["token"] and time.time() < token_cache["expires_at"]
CacheValid(cache, t) == Truthy(cache.token) /\ t < cache.expires_at

\* novo_token = response.text.strip() if response.text else None
NovoToken(text) == IF text /= <<>> THEN Str(Strip(text)) ELSE None

\* Mutant: raise_for_status is forgotten and the body of an error answer is
\* taken for the token.
AuthReturn_IgnoreStatus(result) ==
    IF result.kind \in {"ok", "http_error"} THEN NovoToken(result.text) ELSE None

\* What obter_token_sistema makes of the outcome of its outbound call:
\* raise_for_status and the except clause turn every failure into None.
AuthReturn(result) == IF result.kind = "ok" THEN NovoToken(result.text) ELSE None

\* What validar_login_aluno returns: response.json(), or None from both except clauses.
ValidationReturn(result) == IF result.kind = "ok" THEN result.json ELSE None

\* `resposta_validacao and resposta_validacao.get('acessoValido')` calls .get on
\* every truthy value; a truthy value that is no dict has no .get and raises.
GetRaises(r) == Truthy(r) /\ r.type /= "dict"
\* Mutant: the test of acessoValido is forgotten.
Granted_AnyObject(r) == Truthy(r) /\ r.type = "dict"

\* if resposta_validacao and resposta_validacao.get('acessoValido')
Granted(r) == Truthy(r) /\ r.type = "dict" /\ Truthy(DictGet(r.val, "acessoValido", None))

\* Mutant: the fallbacks replace every falsy value (`x.get(k) or default`).
OrDefault(v, default) == IF Truthy(v) THEN v ELSE default
SessionOnGranted_OrDefault(d, r, codigo) ==
    DictSet(DictSet(DictSet(d, "usuario_logado", Bool(TRUE)),
                    "aluno_id", OrDefault(DictGet(r.val, "alunoId", None), codigo)),
            "aluno_nome", OrDefault(DictGet(r.val, "nome", None), ESTUDANTE))

\* session['usuario_logado'] = True; session['aluno_id'] = ...; session['aluno_nome'] = ...
SessionOnGranted(d, r, codigo) ==
    DictSet(DictSet(DictSet(d, "usuario_logado", Bool(TRUE)),
                    "aluno_id", DictGet(r.val, "alunoId", codigo)),
            "aluno_nome", DictGet(r.val, "nome", ESTUDANTE))

\* ------------------------------------------------------------- the actions
\* The clock advances.
Tick ==
    /\ now < StartTime + MaxTicks * TickStep
    /\ now' = now + TickStep
    /\ UNCHANGED <<token_cache, session, pc, route, form, tnow, novo_token,
                   token_sistema, auth_result, valid_result, resp, flashed, authCalls,
                   validCalls, tokenBy, expBy, tokenFetchedAt>>
    /\ UNCHANGED <<usuario_id, oauth_result>>

\* Flask dispatches the request of b to the handler of route r.
Begin(b, r, f) ==
    /\ pc[b] = "idle"
    /\ route' = [route EXCEPT ![b] = r]
    /\ form' = [form EXCEPT ![b] = f]

\* The handler returns: the response and the flashed message of the request.
Finish(b, response, message) ==
    /\ pc' = [pc EXCEPT ![b] = "done"]
    /\ resp' = [resp EXCEPT ![b] = response]
    /\ flashed' = [flashed EXCEPT ![b] = message]
    /\ tnow' = [tnow EXCEPT ![b] = StartTime]
    /\ novo_token' = [novo_token EXCEPT ![b] = None]
    /\ token_sistema' = [token_sistema EXCEPT ![b] = None]

\* The response is sent and the request is over; the browser may make another.
End(b) ==
    /\ pc[b] = "done"
    /\ pc' = [pc EXCEPT ![b] = "idle"]
    /\ route' = [route EXCEPT ![b] = "none"]
    /\ form' = [form EXCEPT ![b] = NoForm]
    /\ resp' = [resp EXCEPT ![b] = "none"]
    /\ flashed' = [flashed EXCEPT ![b] = NoMsg]
    /\ authCalls' = [authCalls EXCEPT ![b] = 0]
    /\ validCalls' = [validCalls EXCEPT ![b] = 0]
    /\ auth_result' = [auth_result EXCEPT ![b] = NoResult]
    /\ valid_result' = [valid_result EXCEPT ![b] = NoResult]
    /\ usuario_id' = [usuario_id EXCEPT ![b] = None]
    /\ oauth_result' = [oauth_result EXCEPT ![b] = NoResult]
    /\ UNCHANGED <<token_cache, now, session, tnow, novo_token, token_sistema,
                   tokenBy, expBy, tokenFetchedAt>>

\* Mutant: the portal without its gate.
Portal_NoGate(b) ==
    /\ Begin(b, "portal", NoForm)
    /\ Finish(b, "portal_page", NoMsg)
    /\ UNCHANGED <<token_cache, now, session, auth_result, valid_result, authCalls,
                   validCalls, tokenBy, expBy, tokenFetchedAt>>
    /\ UNCHANGED <<usuario_id, oauth_result>>

\* GET /portal
Portal(b) ==
    /\ Begin(b, "portal", NoForm)
    /\ IF ~LoggedIn(session[b])
         THEN Finish(b, "redirect_login", MSG_PRECISA_LOGIN)
         ELSE Finish(b, "portal_page", NoMsg)
    /\ UNCHANGED <<token_cache, now, session, auth_result, valid_result, authCalls,
                   validCalls, tokenBy, expBy, tokenFetchedAt>>
    /\ UNCHANGED <<usuario_id, oauth_result>>

\* Mutant: only the flag is removed (session.pop('usuario_logado', None)).
Logout_FlagOnly(b) ==
    /\ Begin(b, "logout", NoForm)
    /\ usuario_id' = [usuario_id EXCEPT ![b] = DictGet(session[b], "aluno_id", DESCONHECIDO)]
    /\ session' = [session EXCEPT ![b] =
                      [k \in DOMAIN @ \ {"usuario_logado"} |-> @[k]]]
    /\ Finish(b, "redirect_login", MSG_DESCONECTADO)
    /\ UNCHANGED <<token_cache, now, auth_result, valid_result, authCalls, validCalls,
                   oauth_result, tokenBy, expBy, tokenFetchedAt>>

\* Mutant: the flag is removed with del session['usuario_logado'], which raises
\* on a session that does not hold it.
Logout_DelRaises(b) ==
    /\ Begin(b, "logout", NoForm)
    /\ usuario_id' = [usuario_id EXCEPT ![b] = DictGet(session[b], "aluno_id", DESCONHECIDO)]
    /\ IF LoggedIn(session[b])
         THEN /\ session' = [session EXCEPT ![b] = EmptyDict]
              /\ Finish(b, "redirect_login", MSG_DESCONECTADO)
         ELSE /\ UNCHANGED session
              /\ Finish(b, "error_500", NoMsg)
    /\ UNCHANGED <<token_cache, now, auth_result, valid_result, authCalls, validCalls,
                   oauth_result, tokenBy, expBy, tokenFetchedAt>>

\* GET /logout
Logout(b) ==
    /\ Begin(b, "logout", NoForm)
    /\ usuario_id' = [usuario_id EXCEPT ![b] = DictGet(session[b], "aluno_id", DESCONHECIDO)]
    /\ session' = [session EXCEPT ![b] = EmptyDict]
    /\ Finish(b, "redirect_login", MSG_DESCONECTADO)
    /\ UNCHANGED <<token_cache, now, auth_result, valid_result, authCalls, validCalls,
                   oauth_result, tokenBy, expBy, tokenFetchedAt>>

\* GET /
LoginGet(b) ==
    /\ Begin(b, "login_get", NoForm)
    /\ IF LoggedIn(session[b])
         THEN Finish(b, "redirect_portal", NoMsg)
         ELSE Finish(b, "login_page", NoMsg)
    /\ UNCHANGED <<token_cache, now, session, auth_result, valid_result, authCalls,
                   validCalls, tokenBy, expBy, tokenFetchedAt>>
    /\ UNCHANGED <<usuario_id, oauth_result>>

\* Mutant: login does not look at the session before it handles the form.
LoginPost_NoLoggedCheck(b, codigo, senha) ==
    /\ Begin(b, "login_post", [codigo |-> codigo, senha |-> senha])
    /\ IF MissingInput(codigo, senha)
         THEN Finish(b, "login_page", MSG_OBRIGATORIOS)
         ELSE /\ pc' = [pc EXCEPT ![b] = "obter_token"]
              /\ UNCHANGED <<resp, flashed, tnow, novo_token, token_sistema>>
    /\ UNCHANGED <<token_cache, now, session, auth_result, valid_result, authCalls,
                   validCalls, tokenBy, expBy, tokenFetchedAt>>
    /\ UNCHANGED <<usuario_id, oauth_result>>

\* Mutant: login asks for the system token before it looks at the form.
LoginPost_TokenFirst(b, codigo, senha) ==
    /\ Begin(b, "login_post", [codigo |-> codigo, senha |-> senha])
    /\ IF LoggedIn(session[b])
         THEN Finish(b, "redirect_portal", NoMsg)
         ELSE /\ pc' = [pc EXCEPT ![b] = "obter_token"]
              /\ UNCHANGED <<resp, flashed, tnow, novo_token, token_sistema>>
    /\ UNCHANGED <<token_cache, now, session, auth_result, valid_result, authCalls,
                   validCalls, tokenBy, expBy, tokenFetchedAt>>
    /\ UNCHANGED <<usuario_id, oauth_result>>

\* POST / up to the call of obter_token_sistema.
LoginPost(b, codigo, senha) ==
    /\ Begin(b, "login_post", [codigo |-> codigo, senha |-> senha])
    /\ IF LoggedIn(session[b])
         THEN Finish(b, "redirect_portal", NoMsg)
         ELSE IF MissingInput(codigo, senha)
                THEN Finish(b, "login_page", MSG_OBRIGATORIOS)
                ELSE /\ pc' = [pc EXCEPT ![b] = "obter_token"]
                     /\ UNCHANGED <<resp, flashed, tnow, novo_token, token_sistema>>
    /\ UNCHANGED <<token_cache, now, session, auth_result, valid_result, authCalls,
                   validCalls, tokenBy, expBy, tokenFetchedAt>>
    /\ UNCHANGED <<usuario_id, oauth_result>>

\* obter_token_sistema, the cache check: a hit goes on to return the cached
\* token, a miss sends the Autenticacao request.
CacheCheck(b) ==
    /\ pc[b] = "obter_token"
    /\ tnow' = [tnow EXCEPT ![b] = now]
    /\ IF CacheValid(token_cache, now)
         THEN /\ pc' = [pc EXCEPT ![b] = "cache_hit"]
              /\ UNCHANGED authCalls
         ELSE /\ pc' = [pc EXCEPT ![b] = "auth_call"]
              /\ authCalls' = [authCalls EXCEPT ![b] = @ + 1]
    /\ UNCHANGED <<token_cache, now, session, route, form, novo_token, token_sistema,
                   auth_result, valid_result, resp, flashed, validCalls, tokenBy, expBy,
                   tokenFetchedAt>>
    /\ UNCHANGED <<usuario_id, oauth_result>>

\* Mutant: login does not test token_sistema and validates with whatever it got.
AfterToken_NoTest(b, tok) ==
    /\ pc' = [pc EXCEPT ![b] = "validar"]
    /\ token_sistema' = [token_sistema EXCEPT ![b] = tok]
    /\ novo_token' = [novo_token EXCEPT ![b] = None]
    /\ tnow' = [tnow EXCEPT ![b] = StartTime]
    /\ validCalls' = [validCalls EXCEPT ![b] = @ + 1]
    /\ auth_result' = [auth_result EXCEPT ![b] = NoResult]
    /\ UNCHANGED <<valid_result, resp, flashed>>

\* login, from the return of obter_token_sistema with tok to the sending of the
\* ValidarLogin request.
AfterToken(b, tok) ==
    IF ~Truthy(tok)
      THEN /\ Finish(b, "login_page", MSG_ERRO_CRITICO)
           /\ UNCHANGED <<auth_result, valid_result, validCalls>>
      ELSE /\ pc' = [pc EXCEPT ![b] = "validar"]
           /\ token_sistema' = [token_sistema EXCEPT ![b] = tok]
           /\ novo_token' = [novo_token EXCEPT ![b] = None]
           /\ tnow' = [tnow EXCEPT ![b] = StartTime]
           /\ validCalls' = [validCalls EXCEPT ![b] = @ + 1]
           /\ auth_result' = [auth_result EXCEPT ![b] = NoResult]
           /\ UNCHANGED <<valid_result, resp, flashed>>

\* obter_token_sistema returns token_cache["token"] as it is now.
CacheReturn(b) ==
    /\ pc[b] = "cache_hit"
    /\ AfterToken(b, token_cache.token)
    /\ UNCHANGED <<token_cache, now, session, route, form, authCalls, tokenBy, expBy,
                   tokenFetchedAt>>
    /\ UNCHANGED <<usuario_id, oauth_result>>

\* The Autenticacao call ends: requests.post returns or raises.
AuthRespond(b, result) ==
    /\ pc[b] = "auth_call"
    /\ auth_result' = [auth_result EXCEPT ![b] = result]
    /\ pc' = [pc EXCEPT ![b] = "auth_result"]
    /\ UNCHANGED <<token_cache, now, session, route, form, tnow, novo_token,
                   token_sistema, valid_result, resp, flashed, authCalls, validCalls,
                   tokenBy, expBy, tokenFetchedAt>>
    /\ UNCHANGED <<usuario_id, oauth_result>>

\* Mutant: the body is tested before it is stripped (if response.text:), and
\* the stripped body is what is stored.
AuthProcess_TestsRawText(b) ==
    /\ pc[b] = "auth_result"
    /\ IF auth_result[b].kind = "ok" /\ auth_result[b].text /= <<>>
         THEN /\ pc' = [pc EXCEPT ![b] = "store_token"]
              /\ novo_token' = [novo_token EXCEPT ![b] = Str(Strip(auth_result[b].text))]
              /\ auth_result' = [auth_result EXCEPT ![b] = NoResult]
              /\ UNCHANGED <<tnow, token_sistema, valid_result, resp, flashed,
                             validCalls>>
         ELSE AfterToken(b, None)
    /\ UNCHANGED <<token_cache, now, session, route, form, authCalls, tokenBy, expBy,
                   tokenFetchedAt>>
    /\ UNCHANGED <<usuario_id, oauth_result>>

\* Mutant: a failed exchange is tried a second time before giving up.
AuthProcess_RetryOnce(b) ==
    /\ pc[b] = "auth_result"
    /\ IF Truthy(AuthReturn(auth_result[b]))
         THEN /\ pc' = [pc EXCEPT ![b] = "store_token"]
              /\ novo_token' = [novo_token EXCEPT ![b] = AuthReturn(auth_result[b])]
              /\ auth_result' = [auth_result EXCEPT ![b] = NoResult]
              /\ UNCHANGED <<tnow, token_sistema, valid_result, resp, flashed,
                             validCalls, authCalls>>
         ELSE IF authCalls[b] < 2
                THEN /\ pc' = [pc EXCEPT ![b] = "auth_call"]
                     /\ authCalls' = [authCalls EXCEPT ![b] = @ + 1]
                     /\ auth_result' = [auth_result EXCEPT ![b] = NoResult]
                     /\ UNCHANGED <<tnow, novo_token, token_sistema, valid_result, resp,
                                    flashed, validCalls>>
                ELSE /\ AfterToken(b, None)
                     /\ UNCHANGED authCalls
    /\ UNCHANGED <<token_cache, now, session, route, form, tokenBy, expBy,
                   tokenFetchedAt>>
    /\ UNCHANGED <<usuario_id, oauth_result>>

\* obter_token_sistema, from raise_for_status to the test of novo_token: a token
\* goes on to be stored, anything else returns None.
AuthProcess(b) ==
    /\ pc[b] = "auth_result"
    /\ IF Truthy(AuthReturn(auth_result[b]))
         THEN /\ pc' = [pc EXCEPT ![b] = "store_token"]
              /\ novo_token' = [novo_token EXCEPT ![b] = AuthReturn(auth_result[b])]
              /\ auth_result' = [auth_result EXCEPT ![b] = NoResult]
              /\ UNCHANGED <<tnow, token_sistema, valid_result, resp, flashed,
                             validCalls>>
         ELSE AfterToken(b, None)
    /\ UNCHANGED <<token_cache, now, session, route, form, authCalls, tokenBy, expBy,
                   tokenFetchedAt>>
    /\ UNCHANGED <<usuario_id, oauth_result>>

\* token_cache["token"] = novo_token
StoreToken(b) ==
    /\ pc[b] = "store_token"
    /\ token_cache' = [token_cache EXCEPT !.token = novo_token[b]]
    /\ tokenBy' = b
    /\ tokenFetchedAt' = <<>>
    /\ pc' = [pc EXCEPT ![b] = "store_expiry"]
    /\ UNCHANGED <<now, session, route, form, tnow, novo_token, token_sistema,
                   auth_result, valid_result, resp, flashed, authCalls, validCalls,
                   expBy>>
    /\ UNCHANGED <<usuario_id, oauth_result>>

\* token_cache["expires_at"] = time.time() + TOKEN_LIFESPAN_SECONDS; return novo_token
StoreExpiry(b) ==
    /\ pc[b] = "store_expiry"
    /\ token_cache' = [token_cache EXCEPT !.expires_at = now + TOKEN_LIFESPAN_SECONDS]
    /\ expBy' = b
    /\ tokenFetchedAt' = IF tokenBy = b THEN <<now>> ELSE tokenFetchedAt
    /\ AfterToken(b, novo_token[b])
    /\ UNCHANGED <<now, session, route, form, authCalls, tokenBy>>
    /\ UNCHANGED <<usuario_id, oauth_result>>

\* The ValidarLogin call ends: requests.post returns or raises. login does not
\* read token_sistema again.
ValidateRespond(b, result) ==
    /\ pc[b] = "validar"
    /\ valid_result' = [valid_result EXCEPT ![b] = result]
    /\ token_sistema' = [token_sistema EXCEPT ![b] = None]
    /\ pc' = [pc EXCEPT ![b] = "processar"]
    /\ UNCHANGED <<token_cache, now, session, route, form, tnow, novo_token,
                   auth_result, resp, flashed, authCalls, validCalls, tokenBy, expBy,
                   tokenFetchedAt>>
    /\ UNCHANGED <<usuario_id, oauth_result>>

\* Mutant: a validation that returned None is reported as a system error.
ProcessValidation_ErrorOnNone(b) ==
    /\ pc[b] = "processar"
    /\ LET resposta_validacao == ValidationReturn(valid_result[b])
       IN  IF GetRaises(resposta_validacao)
             THEN /\ Finish(b, "error_500", NoMsg)
                  /\ UNCHANGED session
             ELSE IF Granted(resposta_validacao)
                    THEN /\ session' = [session EXCEPT ![b] =
                                 SessionOnGranted(@, resposta_validacao, form[b].codigo)]
                         /\ Finish(b, "redirect_portal", NoMsg)
                    ELSE /\ Finish(b, "login_page",
                                   IF resposta_validacao = None
                                     THEN MSG_ERRO_CRITICO ELSE MSG_INVALIDOS)
                         /\ UNCHANGED session
    /\ UNCHANGED <<token_cache, now, route, form, auth_result, valid_result, authCalls,
                   validCalls, tokenBy, expBy, tokenFetchedAt>>
    /\ UNCHANGED <<usuario_id, oauth_result>>

\* validar_login_aluno returns resposta_validacao and login goes from its test
\* to its return.
ProcessValidation(b) ==
    /\ pc[b] = "processar"
    /\ LET resposta_validacao == ValidationReturn(valid_result[b])
       IN  IF GetRaises(resposta_validacao)
             THEN /\ Finish(b, "error_500", NoMsg)
                  /\ UNCHANGED session
             ELSE IF Granted(resposta_validacao)
                    THEN /\ session' = [session EXCEPT ![b] =
                                 SessionOnGranted(@, resposta_validacao, form[b].codigo)]
                         /\ Finish(b, "redirect_portal", NoMsg)
                    ELSE /\ Finish(b, "login_page", MSG_INVALIDOS)
                         /\ UNCHANGED session
    /\ UNCHANGED <<token_cache, now, route, form, auth_result, valid_result, authCalls,
                   validCalls, tokenBy, expBy, tokenFetchedAt>>
    /\ UNCHANGED <<usuario_id, oauth_result>>

\* One step of the request of browser b.
Step(b) ==
    \/ Portal(b)
    \/ Logout(b)
    \/ LoginGet(b)
    \/ \E codigo \in Codigos, senha \in Senhas : LoginPost(b, codigo, senha)
    \/ CacheCheck(b)
    \/ CacheReturn(b)
    \/ \E result \in AuthResults : AuthRespond(b, result)
    \/ AuthProcess(b)
    \/ StoreToken(b)
    \/ StoreExpiry(b)
    \/ \E result \in ValidationResults : ValidateRespond(b, result)
    \/ ProcessValidation(b)
    \/ End(b)

Next ==
    \/ Tick
    \/ \E b \in Sessions : Step(b)

\* Requests of different browsers interleave.
Spec == Init /\ [][Next]_vars

\* No request of another browser is inside its handler.
Alone(b) == \A c \in Sessions \ {b} : pc[c] \in {"idle", "done"}

\* No two requests overlap: a browser moves only while it is alone.
NextSeq ==
    \/ Tick
    \/ \E b \in Sessions : Alone(b) /\ Portal(b)
    \/ \E b \in Sessions : Alone(b) /\ Logout(b)
    \/ \E b \in Sessions : Alone(b) /\ LoginGet(b)
    \/ \E b \in Sessions, codigo \in Codigos, senha \in Senhas :
          Alone(b) /\ LoginPost(b, codigo, senha)
    \/ \E b \in Sessions : Alone(b) /\ CacheCheck(b)
    \/ \E b \in Sessions : Alone(b) /\ CacheReturn(b)
    \/ \E b \in Sessions, result \in AuthResults : Alone(b) /\ AuthRespond(b, result)
    \/ \E b \in Sessions : Alone(b) /\ AuthProcess(b)
    \/ \E b \in Sessions : Alone(b) /\ StoreToken(b)
    \/ \E b \in Sessions : Alone(b) /\ StoreExpiry(b)
    \/ \E b \in Sessions, result \in ValidationResults :
          Alone(b) /\ ValidateRespond(b, result)
    \/ \E b \in Sessions : Alone(b) /\ ProcessValidation(b)
    \/ \E b \in Sessions : End(b)

SpecSeq == Init /\ [][NextSeq]_vars

\* ------------------------------------------------- the student (Google) flow
\* The routes /login/google and /login/google/callback, as the specification
\* describes them (sections 4.3 and 4.4, flow 2).
MSG_GOOGLE_ERRO == "Erro ao autenticar com o Google. Tente novamente."
MSG_DOMINIO == "Acesso permitido apenas para o dominio da escola."

\* The configured allowed domain suffix, and the e-mail claims a provider may
\* assert: of the domain, of the domain in upper case, of another domain, of
\* a domain that ends in the same letters without the '@', empty.
ALLOWED_DOMAIN == <<"@", "c", ".", "b">>
Emails ==
    { Str(<<"u", "@", "c", ".", "b">>),
      Str(<<"U", "@", "C", ".", "B">>),
      Str(<<"u", "@", "o", ".", "b">>),
      Str(<<"u", "@", "x", "c", ".", "b">>),
      Str(<<>>) }

\* The identity claims of an exchange: with or without email, with or without name.
UserInfos ==
    { Dict([email |-> e, name |-> MARIA]) : e \in Emails }
        \cup { Dict([email |-> e]) : e \in Emails }
        \cup { Dict([name |-> MARIA]) }

\* How an authorization-code exchange ends: it raises, or it returns a result
\* that carries the identity claims or does not.
OAuthResults ==
    { [kind |-> "error", userinfo |-> None], [kind |-> "ok", userinfo |-> None] }
        \cup { [kind |-> "ok", userinfo |-> u] : u \in UserInfos }

\* str.lower, on the letters of the e-mails.
LowerChar(c) ==
    CASE c = "U" -> "u"
      [] c = "C" -> "c"
      [] c = "B" -> "b"
      [] OTHER -> c
Lower(s) == [i \in 1..Len(s) |-> LowerChar(s[i])]

\* str.endswith
EndsWith(s, suffix) ==
    /\ Len(s) >= Len(suffix)
    /\ SubSeq(s, Len(s) - Len(suffix) + 1, Len(s)) = suffix

\* extract_identity: the claims of the exchange, or None for IdentityUnavailable.
ExtractIdentity(result) ==
    IF result.kind = "ok" /\ Truthy(result.userinfo) THEN result.userinfo ELSE None

\* Mutant: the e-mail is compared as it was asserted, without lower-casing.
DomainAllowed_CaseSensitive(email) ==
    /\ Truthy(email)
    /\ EndsWith(email.val, ALLOWED_DOMAIN)

\* The domain allow-list policy.
DomainAllowed(email) ==
    /\ Truthy(email)
    /\ EndsWith(Lower(email.val), ALLOWED_DOMAIN)

\* GET /login/google: the browser is sent to the provider.
GoogleLogin(b) ==
    /\ Begin(b, "google_login", NoForm)
    /\ Finish(b, "redirect_provider", NoMsg)
    /\ UNCHANGED <<token_cache, now, session, auth_result, valid_result, authCalls,
                   validCalls, usuario_id, oauth_result, tokenBy, expBy, tokenFetchedAt>>

\* GET /login/google/callback: the exchange has ended with result.
GoogleCallback(b, result) ==
    /\ Begin(b, "google_callback", NoForm)
    /\ oauth_result' = [oauth_result EXCEPT ![b] = result]
    /\ LET identity == ExtractIdentity(result)
           email == IF identity = None THEN None
                    ELSE DictGet(identity.val, "email", None)
       IN  IF identity = None
             THEN /\ UNCHANGED session
                  /\ Finish(b, "redirect_login", MSG_GOOGLE_ERRO)
             ELSE IF ~DomainAllowed(email)
                    THEN /\ UNCHANGED session
                         /\ Finish(b, "redirect_login", MSG_DOMINIO)
                    ELSE /\ session' = [session EXCEPT ![b] =
                                DictSet(DictSet(DictSet(@,
                                    "usuario_logado", Bool(TRUE)),
                                    "aluno_id", email),
                                    "aluno_nome", DictGet(identity.val, "name", ESTUDANTE))]
                         /\ Finish(b, "redirect_portal", NoMsg)
    /\ UNCHANGED <<token_cache, now, auth_result, valid_result, authCalls, validCalls,
                   usuario_id, tokenBy, expBy, tokenFetchedAt>>

\* The requests of the student flow, with the portal and logout they lead to.
NextGoogle ==
    \/ \E b \in Sessions : GoogleLogin(b)
    \/ \E b \in Sessions : \E result \in OAuthResults : GoogleCallback(b, result)
    \/ \E b \in Sessions : Portal(b)
    \/ \E b \in Sessions : Logout(b)
    \/ \E b \in Sessions : LoginGet(b)
    \/ \E b \in Sessions : End(b)

SpecGoogle == Init /\ [][NextGoogle]_vars

\* ---------------------------------------------------------------- the claims
\* The ValidarLogin call was answered and the answer is an object that carries
\* acessoValido: true.
AnswerGrants(result) ==
    /\ result.kind = "ok"
    /\ result.json.type = "dict"
    /\ "acessoValido" \in DOMAIN result.json.val
    /\ result.json.val["acessoValido"] = Bool(TRUE)

\* The ValidarLogin call was answered and the answer is an object in which
\* acessoValido is absent or false.
AnswerDenies(result) ==
    /\ result.kind = "ok"
    /\ result.json.type = "dict"
    /\ \/ "acessoValido" \notin DOMAIN result.json.val
       \/ result.json.val["acessoValido"] = Bool(FALSE)

\* A submitted field is missing or empty.
Blank(v) == v = None \/ v = Str(<<>>)
MissingInputSpec(codigo, senha) == Blank(codigo) \/ Blank(senha)

\* The request of b leaves the step it is at.
Moves(b) == pc'[b] /= pc[b]

\* C1: a session gains 'usuario_logado' only in the step of a login POST that
\* processes an answered validation carrying acessoValido: true; an answer in
\* which the field is absent or false ends in the invalid-credentials message
\* with the session still anonymous.
C1_AuthenticatedOnlyOnGranted ==
    [][\A b \in Sessions :
          /\ (~LoggedIn(session[b]) /\ LoggedIn(session'[b]))
                => /\ pc[b] = "processar"
                   /\ route[b] = "login_post"
                   /\ AnswerGrants(valid_result[b])
          /\ (pc[b] = "processar" /\ Moves(b) /\ AnswerDenies(valid_result[b]))
                => /\ resp'[b] = "login_page"
                   /\ flashed'[b] = MSG_INVALIDOS
                   /\ ~LoggedIn(session'[b])]_vars

\* A login POST has just turned its session Authenticated.
C1_Witness ==
    \E b \in Sessions :
        /\ pc[b] = "done"
        /\ route[b] = "login_post"
        /\ resp[b] = "redirect_portal"
        /\ validCalls[b] = 1
        /\ LoggedIn(session[b])

\* C2: the portal page is the response of a portal request of an Authenticated
\* session only; the portal request of an Anonymous session is answered with
\* the redirect to login and the flashed message.
C2_PortalGate ==
    \A b \in Sessions :
        /\ resp[b] = "portal_page" => (route[b] = "portal" /\ LoggedIn(session[b]))
        /\ (pc[b] = "done" /\ route[b] = "portal" /\ ~LoggedIn(session[b]))
              => (resp[b] = "redirect_login" /\ flashed[b] = MSG_PRECISA_LOGIN)

\* An Anonymous session asked for the portal after a logout of the other one
\* and was redirected.
C2_Witness ==
    \E b \in Sessions :
        /\ pc[b] = "done"
        /\ route[b] = "portal"
        /\ ~LoggedIn(session[b])
        /\ resp[b] = "redirect_login"
        /\ \E c \in Sessions \ {b} : LoggedIn(session[c])

\* The instant at which the cached token was fetched, once its refresh is complete.
Fetched == tokenFetchedAt /= <<>>
FetchedAt == tokenFetchedAt[1]

\* C3: with no two requests overlapping, after a fetch at instant t a call at
\* an instant before t + 1800 returns the cached token and issues no
\* Autenticacao call; a call at or after t + 1800 issues one, and no call
\* issues more than one.
C3_CacheWindowSequential ==
    \A b \in Sessions :
        /\ authCalls[b] <= 1
        /\ pc[b] \in {"auth_call", "auth_result", "store_token", "store_expiry"}
              => authCalls[b] = 1
        /\ pc[b] = "auth_call"
              => (~Fetched \/ tnow[b] >= FetchedAt + TOKEN_LIFESPAN_SECONDS)
        /\ pc[b] = "cache_hit"
              => /\ Fetched
                 /\ tnow[b] < FetchedAt + TOKEN_LIFESPAN_SECONDS
                 /\ authCalls[b] = 0
        /\ (pc[b] = "validar" /\ authCalls[b] = 0)
              => token_sistema[b] = token_cache.token

\* A call made exactly 1800 seconds after the fetch has issued an Autenticacao call.
C3_Witness ==
    \E b \in Sessions :
        /\ pc[b] = "auth_call"
        /\ Fetched
        /\ tnow[b] = FetchedAt + TOKEN_LIFESPAN_SECONDS
        /\ authCalls[b] = 1

\* C4: a call that is about to return the cached token read the clock at an
\* instant before that token's own expiry, the instant its refresh computed
\* for it plus 1800 seconds.
C4_NoStaleTokenFromCache ==
    \A b \in Sessions :
        (pc[b] = "cache_hit" /\ Fetched)
            => tnow[b] < FetchedAt + TOKEN_LIFESPAN_SECONDS

\* The Autenticacao exchange failed: a network error, a timeout, a non-success
\* status or an empty body.
AuthFailed(result) ==
    \/ result.kind \in {"network_error", "timeout", "http_error"}
    \/ (result.kind = "ok" /\ result.text = <<>>)

\* C5: no step of obter_token_sistema up to and including the one that
\* processes a failed Autenticacao exchange changes a field of token_cache;
\* that last step returns no token to login and ends the request with the one
\* Autenticacao call it has made.
C5_FailedExchangeLeavesCache ==
    [][\A b \in Sessions :
          /\ (pc[b] \in {"obter_token", "cache_hit", "auth_call"} /\ Moves(b))
                => token_cache' = token_cache
          /\ (pc[b] = "auth_result" /\ AuthFailed(auth_result[b]) /\ Moves(b))
                => /\ token_cache' = token_cache
                   /\ token_sistema'[b] = None
                   /\ pc'[b] = "done"
                   /\ authCalls'[b] = 1]_vars

\* A refresh of an expired token failed with a non-success status and the
\* expired entry is still in the cache.
C5_Witness ==
    \E b \in Sessions :
        /\ pc[b] = "done"
        /\ auth_result[b].kind = "http_error"
        /\ authCalls[b] = 1
        /\ Truthy(token_cache.token)
        /\ Fetched
        /\ now >= token_cache.expires_at

\* C6: a login POST with the code or the password missing or empty ends in its
\* first step: no call is issued, token_cache and the session are unchanged,
\* and an Anonymous session gets the login page with the required-fields message.
C6_MissingInputRejected ==
    [][\A b \in Sessions :
          (pc[b] = "idle" /\ route'[b] = "login_post"
             /\ MissingInputSpec(form'[b].codigo, form'[b].senha))
              => /\ pc'[b] = "done"
                 /\ authCalls'[b] = 0
                 /\ validCalls'[b] = 0
                 /\ token_cache' = token_cache
                 /\ session'[b] = session[b]
                 /\ ~LoggedIn(session[b])
                       => /\ resp'[b] = "login_page"
                          /\ flashed'[b] = MSG_OBRIGATORIOS
                          /\ ~LoggedIn(session'[b])]_vars

\* A login POST with a code and an empty password was rejected.
C6_Witness ==
    \E b \in Sessions :
        /\ pc[b] = "done"
        /\ route[b] = "login_post"
        /\ form[b].codigo = Str(<<"1", "2", "3">>)
        /\ form[b].senha = Str(<<>>)
        /\ flashed[b] = MSG_OBRIGATORIOS
        /\ ~LoggedIn(session[b])

\* C7: a login POST with a code and a password whose Autenticacao call fails
\* ends with the generic system-error message, no ValidarLogin call, and its
\* session unchanged and Anonymous.
C7_OutageEndsAnonymous ==
    [][\A b \in Sessions :
          (pc[b] = "auth_result" /\ AuthFailed(auth_result[b]) /\ Moves(b))
              => /\ resp'[b] = "login_page"
                 /\ flashed'[b] = MSG_ERRO_CRITICO
                 /\ validCalls'[b] = 0
                 /\ session'[b] = session[b]
                 /\ ~LoggedIn(session'[b])]_vars

\* A login POST met a timeout of the Autenticacao endpoint.
C7_Witness ==
    \E b \in Sessions :
        /\ pc[b] = "done"
        /\ route[b] = "login_post"
        /\ auth_result[b].kind = "timeout"
        /\ flashed[b] = MSG_ERRO_CRITICO
        /\ validCalls[b] = 0
        /\ ~LoggedIn(session[b])

\* The ValidarLogin call ended in a network error, a timeout, a non-success
\* status or a body that is not JSON.
Unavailable(result) ==
    result.kind \in {"network_error", "timeout", "http_error", "not_json"}

NonEmptyStr(v) == v.type = "str" /\ Len(v.val) > 0

\* C9: an Authenticated session holds 'aluno_id' and 'aluno_nome', both
\* present and not empty.
C9_AuthenticatedHasIdentity ==
    \A b \in Sessions :
        LoggedIn(session[b])
            => /\ "aluno_id" \in DOMAIN session[b]
               /\ "aluno_nome" \in DOMAIN session[b]
               /\ NonEmptyStr(session[b]["aluno_id"])
               /\ NonEmptyStr(session[b]["aluno_nome"])

\* C10: a login POST whose validation grants ends with the session
\* Authenticated, 'aluno_id' the alunoId of the answer when that field is
\* present and the submitted code when it is absent, and 'aluno_nome' the nome
\* of the answer when present and 'Estudante' when absent.
C10_SessionPopulatedFromAnswer ==
    \A b \in Sessions :
        (pc[b] = "done" /\ AnswerGrants(valid_result[b]))
            => LET answer == valid_result[b].json.val
               IN  /\ LoggedIn(session[b])
                   /\ resp[b] = "redirect_portal"
                   /\ session[b]["aluno_id"] =
                        IF "alunoId" \in DOMAIN answer
                          THEN answer["alunoId"] ELSE form[b].codigo
                   /\ session[b]["aluno_nome"] =
                        IF "nome" \in DOMAIN answer THEN answer["nome"] ELSE ESTUDANTE

\* A login was granted by an answer without alunoId and nome: the session
\* holds the submitted code and the default label.
C10_Witness ==
    \E b \in Sessions :
        /\ pc[b] = "done"
        /\ AnswerGrants(valid_result[b])
        /\ "alunoId" \notin DOMAIN valid_result[b].json.val
        /\ LoggedIn(session[b])
        /\ session[b]["aluno_id"] = Str(<<"1", "2", "3">>)
        /\ session[b]["aluno_nome"] = ESTUDANTE

\* C11: a login POST that ends without the session Authenticated ends in a
\* handled response that shows the login page, whatever the two upstream calls
\* returned, a parseable body that is not a JSON object included; no attempt
\* ends in an unhandled error.
C11_EveryFailureHandled ==
    \A b \in Sessions :
        (pc[b] = "done" /\ route[b] = "login_post" /\ ~LoggedIn(session[b]))
            => /\ resp[b] = "login_page"
               /\ flashed[b] \in {MSG_OBRIGATORIOS, MSG_ERRO_CRITICO, MSG_INVALIDOS}

\* C12: logout removes every authentication attribute whatever the session
\* held, and answers with the redirect to the login page; a portal request on
\* the session that logout leaves is denied with the same redirect.
C12_LogoutClearsSession ==
    [][\A b \in Sessions :
          /\ (pc[b] = "idle" /\ route'[b] = "logout")
                => /\ DOMAIN session'[b] \cap {"usuario_logado", "aluno_id", "aluno_nome"} = {}
                   /\ ~LoggedIn(session'[b])
                   /\ resp'[b] = "redirect_login"
                   /\ flashed'[b] = MSG_DESCONECTADO
          /\ (pc[b] = "idle" /\ route'[b] = "portal" /\ session[b] = EmptyDict)
                => /\ resp'[b] = "redirect_login"
                   /\ flashed'[b] = MSG_PRECISA_LOGIN
                   /\ session'[b] = EmptyDict]_vars

\* A logout has ended on a session that held the identity A1: the session
\* holds no attribute any more.
C12_Witness ==
    \E b \in Sessions :
        /\ pc[b] = "done"
        /\ route[b] = "logout"
        /\ usuario_id[b] = A1
        /\ session[b] = EmptyDict
        /\ resp[b] = "redirect_login"

EmailClaim(result) == DictGet(result.userinfo.val, "email", None)

\* C14: a Google login whose identity carries no e-mail, an empty one, or one
\* whose lower-cased form does not end with the allowed domain suffix is
\* denied with the domain message and leaves the session as it was, Anonymous
\* if it was; one whose lower-cased e-mail ends with the suffix makes the
\* session Authenticated with the e-mail, as asserted, as its subject.
C14_DomainGate ==
    [][\A b \in Sessions :
          (/\ pc[b] = "idle"
           /\ route'[b] = "google_callback"
           /\ oauth_result'[b].kind = "ok"
           /\ oauth_result'[b].userinfo /= None)
              => LET email == EmailClaim(oauth_result'[b])
                 IN  IF \/ Blank(email)
                        \/ ~EndsWith(Lower(email.val), ALLOWED_DOMAIN)
                       THEN /\ session'[b] = session[b]
                            /\ resp'[b] = "redirect_login"
                            /\ flashed'[b] = MSG_DOMINIO
                       ELSE /\ LoggedIn(session'[b])
                            /\ session'[b]["aluno_id"] = email
                            /\ resp'[b] = "redirect_portal"]_vars

\* A Google login with an upper-case e-mail of the domain was granted, and its
\* subject is the e-mail as asserted.
C14_Witness ==
    \E b \in Sessions :
        /\ pc[b] = "done"
        /\ route[b] = "google_callback"
        /\ oauth_result[b].kind = "ok"
        /\ oauth_result[b].userinfo /= None
        /\ EmailClaim(oauth_result[b]) = Str(<<"U", "@", "C", ".", "B">>)
        /\ LoggedIn(session[b])
        /\ session[b]["aluno_id"] = Str(<<"U", "@", "C", ".", "B">>)

\* The request of b is inside a refresh: past the cache check that missed and
\* not past the second write.
Refreshing(b) == pc[b] \in {"auth_call", "auth_result", "store_token", "store_expiry"}

\* C15: a request that is about to read token_cache, at the cache check or at
\* the return of the cached token, never finds a token written by one refresh
\* next to an expires_at written by the refresh of another request.
C15_OverwriteLooksAtomic ==
    \A b \in Sessions :
        pc[b] \in {"obter_token", "cache_hit"}
            => ~(tokenBy \in Sessions /\ expBy \in Sessions /\ tokenBy /= expBy)

\* C16: once no request is inside a refresh any more, the token and the
\* expires_at of token_cache were written by the same refresh.
C16_LastWriterWinsBoth ==
    (tokenBy \in Sessions /\ \A b \in Sessions : ~Refreshing(b))
        => tokenBy = expBy

\* C17: within a login POST the form is validated before the token is asked
\* for, the ValidarLogin call is issued only once obter_token_sistema has
\* returned a non-empty token to this request and carries that token, and the
\* session is written only once that call has been answered.
C17_LoginStepOrder ==
    [][\A b \in Sessions :
          /\ (pc'[b] = "obter_token" /\ Moves(b))
                => /\ pc[b] = "idle"
                   /\ ~MissingInputSpec(form'[b].codigo, form'[b].senha)
                   /\ authCalls'[b] = 0
                   /\ validCalls'[b] = 0
          /\ (pc'[b] = "validar" /\ Moves(b))
                => /\ pc[b] \in {"cache_hit", "store_expiry"}
                   /\ NonEmptyStr(token_sistema'[b])
                   /\ token_sistema'[b] =
                        IF pc[b] = "cache_hit" THEN token_cache.token ELSE novo_token[b]
          /\ validCalls'[b] /= validCalls[b] /\ pc[b] /= "done"
                => /\ pc'[b] = "validar"
                   /\ validCalls[b] = 0
          /\ (route[b] = "login_post" /\ session'[b] /= session[b])
                => /\ pc[b] = "processar"
                   /\ valid_result[b].kind = "ok"
                   /\ validCalls[b] = 1]_vars

\* A login POST went through all four steps with a token it fetched itself:
\* one Autenticacao call, one ValidarLogin call, then the session.
C17_Witness ==
    \E b \in Sessions :
        /\ pc[b] = "done"
        /\ route[b] = "login_post"
        /\ authCalls[b] = 1
        /\ validCalls[b] = 1
        /\ valid_result[b].kind = "ok"
        /\ LoggedIn(session[b])
        /\ resp[b] = "redirect_portal"

\* C18: a login POST issues at most one Autenticacao call and at most one
\* ValidarLogin call; the step that processes a failed call of either kind
\* ends the request with the session Anonymous and issues no further call.
C18_NoRetry ==
    [][\A b \in Sessions :
          /\ authCalls'[b] <= 1
          /\ validCalls'[b] <= 1
          /\ (pc[b] = "auth_result" /\ AuthFailed(auth_result[b]) /\ Moves(b))
                => /\ pc'[b] = "done"
                   /\ ~LoggedIn(session'[b])
                   /\ authCalls'[b] = authCalls[b]
                   /\ validCalls'[b] = 0
          /\ (pc[b] = "processar" /\ Unavailable(valid_result[b]) /\ Moves(b))
                => /\ pc'[b] = "done"
                   /\ ~LoggedIn(session'[b])
                   /\ authCalls'[b] = authCalls[b]
                   /\ validCalls'[b] = validCalls[b]]_vars

\* A login POST ended after one Autenticacao call that gave a token and one
\* ValidarLogin call that failed with a network error: no call was repeated.
C18_Witness ==
    \E b \in Sessions :
        /\ pc[b] = "done"
        /\ route[b] = "login_post"
        /\ authCalls[b] = 1
        /\ validCalls[b] = 1
        /\ valid_result[b].kind = "network_error"
        /\ resp[b] = "login_page"
        /\ ~LoggedIn(session[b])

\* C19: token_cache["token"] is None until the first write of a successful
\* exchange and a non-empty string from then on: no step resets it to None
\* or stores an empty string. The cache is written only by a login POST that
\* passed the form test and issued its Autenticacao call, and that call is
\* issued only by such a request whose cache check found no token or an
\* expired one.
C19_TokenCacheLifecycle ==
    [][/\ token_cache'.token = None \/ NonEmptyStr(token_cache'.token)
       /\ token_cache.token /= None => token_cache'.token /= None
       /\ (token_cache'.token = None) <=> (tokenBy' = Nobody)
       /\ token_cache' /= token_cache
            => \E b \in Sessions :
                  /\ pc[b] \in {"store_token", "store_expiry"}
                  /\ route[b] = "login_post"
                  /\ ~MissingInputSpec(form[b].codigo, form[b].senha)
                  /\ authCalls[b] = 1
                  /\ NonEmptyStr(novo_token[b])
       /\ \A b \in Sessions :
            authCalls'[b] > authCalls[b]
                => /\ route[b] = "login_post"
                   /\ ~MissingInputSpec(form[b].codigo, form[b].senha)
                   /\ token_cache.token = None \/ now >= token_cache.expires_at]_vars

\* The cache holds a token while a request has ended whose exchange was
\* answered with a body of white space only: nothing was stored for it.
C19_Witness ==
    /\ NonEmptyStr(token_cache.token)
    /\ tokenBy \in Sessions
    /\ \E b \in Sessions :
          /\ pc[b] = "done"
          /\ auth_result[b].kind = "ok"
          /\ auth_result[b].text = <<" ">>
          /\ flashed[b] = MSG_ERRO_CRITICO

\* C20: a login request, GET or POST with any form, made on an Authenticated
\* session ends at once with the redirect to the portal: it issues no call
\* and leaves token_cache and the session as they were. The only step that
\* changes an Authenticated session is a logout, which empties it.
C20_LoginWhenAuthenticated ==
    [][\A b \in Sessions :
          /\ (/\ pc[b] = "idle"
              /\ route'[b] \in {"login_get", "login_post"}
              /\ LoggedIn(session[b]))
                => /\ pc'[b] = "done"
                   /\ resp'[b] = "redirect_portal"
                   /\ authCalls'[b] = 0
                   /\ validCalls'[b] = 0
                   /\ token_cache' = token_cache
                   /\ session'[b] = session[b]
          /\ (LoggedIn(session[b]) /\ session'[b] /= session[b])
                => /\ pc[b] = "idle"
                   /\ route'[b] = "logout"
                   /\ session'[b] = EmptyDict]_vars

\* A login POST with a code and a password has ended on a session that was
\* Authenticated as A1: redirect to the portal, no call, the identity kept.
C20_Witness ==
    \E b \in Sessions :
        /\ pc[b] = "done"
        /\ route[b] = "login_post"
        /\ Truthy(form[b].codigo)
        /\ Truthy(form[b].senha)
        /\ validCalls[b] = 0
        /\ authCalls[b] = 0
        /\ resp[b] = "redirect_portal"
        /\ session[b]["aluno_id"] = A1
====
